---- MODULE Spec2Model ----
(***************************************************************************)
(* Model of the absolute-time content script (src/scripts/content.js, the  *)
(* storage-driven variant at lines 358-754), of the shared settings module *)
(* (src/scripts/sharedSettings.js) and of the settings-store functions of  *)
(* the settings pages (src/pages/popup.js, src/pages/options.js).          *)
(*                                                                         *)
(* JavaScript values are modelled as strings: "true" and "false" are the   *)
(* booleans, "undefined" is undefined, every other string is a JS string.  *)
(* The page is run-to-completion: every handler is one atomic action.      *)
(***************************************************************************)
EXTENDS Integers, Sequences, FiniteSets, TLC

(***************************************************************************)
(* Bounds of the model.                                                    *)
(***************************************************************************)
MaxElems == 1
MaxWrites == 1
MaxNavTimers == 1
MaxBatches == 2
MaxTabs == 2

(***************************************************************************)
(* JavaScript values.                                                      *)
(***************************************************************************)
Undefined == "undefined"
Absent == "<absent>"
NoAttr == "<null>"

Truthy(v) == v \notin {"false", Undefined, ""}

Boolean(v) == IF Truthy(v) THEN "true" ELSE "false"

IsBoolean(v) == v \in {"true", "false"}

(* !v *)
Not(v) == IF Truthy(v) THEN "false" ELSE "true"

(* a || b *)
OrElse(a, b) == IF Truthy(a) THEN a ELSE b

(* A value that may be an object: null, undefined, or an object with its   *)
(* own properties (a function from property names to values).              *)
JsNull == [type |-> "null"]
JsUndefined == [type |-> "undefined"]
JsObject(fields) == [type |-> "object", fields |-> fields]

(* v || {} : the own properties of v, none when v is null or undefined. *)
OrEmptyObject(v) == IF v.type = "object" THEN v.fields ELSE << >>

(* { ...a, ...b } and Object.assign({}, a, b): own keys of b win, also     *)
(* when the value is undefined.                                            *)
Merge(a, b) ==
  [k \in (DOMAIN a) \cup (DOMAIN b) |-> IF k \in DOMAIN b THEN b[k] ELSE a[k]]

(***************************************************************************)
(* Settings Store (sharedSettings.js).                                     *)
(***************************************************************************)
Keys == {"enabled", "debug", "dateStyle", "showWeekday", "showTime", "includeSeconds"}

BoolKeys == {"enabled", "debug", "includeSeconds"}

dateStyles == {"short", "medium", "long"}
weekdayPolicies == {"never", "olderYears", "always"}
timePolicies == {"never", "actionsOnly", "always"}

getDefaultSettings ==
  [enabled |-> "true", debug |-> "false", dateStyle |-> "short",
   showWeekday |-> "olderYears", showTime |-> "actionsOnly",
   includeSeconds |-> "false"]

(* Variant: Object.assign({}, partial, defaults), the defaults win. *)
coerceSettings_defaultsWin(partial) == Merge(OrEmptyObject(partial), getDefaultSettings)

(* Variant: the merge without the clamping of enums and booleans. *)
coerceSettings_noClamp(partial) == Merge(getDefaultSettings, OrEmptyObject(partial))

coerceSettings(partial) ==
  LET defaults == getDefaultSettings
      safe == Merge(defaults, OrEmptyObject(partial))
  IN [k \in DOMAIN safe |->
        CASE k = "dateStyle" ->
               IF safe[k] \in dateStyles THEN safe[k] ELSE defaults[k]
          [] k = "showWeekday" ->
               IF safe[k] \in weekdayPolicies THEN safe[k] ELSE defaults[k]
          [] k = "showTime" ->
               IF safe[k] \in timePolicies THEN safe[k] ELSE defaults[k]
          [] k \in BoolKeys -> Boolean(safe[k])
          [] OTHER -> safe[k]]

ValidSettings(s) ==
  /\ DOMAIN s = Keys
  /\ s["dateStyle"] \in dateStyles
  /\ s["showWeekday"] \in weekdayPolicies
  /\ s["showTime"] \in timePolicies
  /\ \A k \in BoolKeys : IsBoolean(s[k])

(***************************************************************************)
(* Content script: state management.                                       *)
(***************************************************************************)
createDefaultSettings == getDefaultSettings

(* Variant: the spread in the other order, the current values win. *)
updateSettings_currentWins(currentSettings, updates) == Merge(updates, currentSettings)

(* The same function in content.js, popup.js and options.js. *)
updateSettings(currentSettings, updates) == Merge(currentSettings, updates)

(* toggleSetting of the settings pages. *)
toggleSetting(currentSettings, key) ==
  updateSettings(currentSettings, [x \in {key} |-> Not(currentSettings[key])])

(***************************************************************************)
(* The page: paths, relative-time elements and their attributes.           *)
(* A pathname is the sequence of its segments; with the segments used here *)
(* pathname.includes("/x") holds exactly when some segment is x.           *)
(***************************************************************************)
PathCommits == <<"org", "repo", "commits">>
PathIssues == <<"org", "repo", "issues", "7">>
PathActions == <<"org", "repo", "actions", "runs", "1">>
Paths == {PathCommits, PathIssues, PathActions}

includes(pathname, segment) == \E i \in DOMAIN pathname : pathname[i] = segment

ignoredRoutes == {"issues", "discussions"}

isIgnoredRoute(pathname) == \E route \in ignoredRoutes : includes(pathname, route)

isActionPage(pathname) == includes(pathname, "actions")

Elems == 1..MaxElems

OwnedAttrs ==
  {"format", "format-style", "weekday", "hour", "minute", "second", "data-formatted"}

AttrNames == OwnedAttrs \cup {"datetime", "tense"}

LastYear == "2025-06-15T12:00:00Z"
ThisYear == "2026-03-02T09:30:00Z"
Datetimes == {LastYear, ThisYear}

(* new Date(datetime).getFullYear() *)
FullYear(datetime) ==
  CASE datetime = LastYear -> 2025
    [] datetime = ThisYear -> 2026
    [] datetime = NoAttr -> 1970
    [] OTHER -> 0

IsNaN(datetime) == datetime \notin (Datetimes \cup {NoAttr})

getCurrentYear == 2026

NoAttrs == [a \in AttrNames |-> NoAttr]

(* Attribute sets the host page gives a relative-time element.             *)
HostAttrs ==
  { NoAttrs,
    [NoAttrs EXCEPT !["format"] = "relative", !["tense"] = "past"] }

(* An element: its attributes, the attributes the host page gave it        *)
(* (orig), and the names of the attributes whose current value was written *)
(* by the formatter (applied).                                             *)
NoElem == [present |-> FALSE, attrs |-> NoAttrs, orig |-> NoAttrs, applied |-> {}]

HostElem(datetime, host) ==
  LET a == [host EXCEPT !["datetime"] = datetime]
  IN [present |-> TRUE, attrs |-> a, orig |-> a, applied |-> {}]

getAttribute(el, name) == el.attrs[name]

setAttribute(el, name, value) ==
  [el EXCEPT !.attrs[name] = value, !.applied = @ \cup {name}]

removeAttribute(el, name) ==
  [el EXCEPT !.attrs[name] = NoAttr, !.applied = @ \ {name}]

RECURSIVE removeAttributes(_, _)
removeAttributes(el, names) ==
  IF names = {} THEN el
  ELSE LET n == CHOOSE x \in names : TRUE
       IN removeAttributes(removeAttribute(el, n), names \ {n})

(***************************************************************************)
(* Time formatting logic.                                                  *)
(***************************************************************************)
needsFormatting(el) == getAttribute(el, "data-formatted") # "true"

getElementYear(el) == FullYear(getAttribute(el, "datetime"))

applyBaseFormatting(el, currentSettings) ==
  LET style == OrElse(currentSettings["dateStyle"], "short")
      e1 == setAttribute(el, "format", "datetime")
      e2 == setAttribute(e1, "format-style", style)
  IN setAttribute(e2, "data-formatted", "true")

(* Variant: the element's year is compared with <=. *)
applyYearFormatting_sameYearToo(el, currentYear, currentSettings) ==
  LET policy == OrElse(currentSettings["showWeekday"], "olderYears")
      shouldShowWeekday ==
        \/ policy = "always"
        \/ /\ policy = "olderYears"
           /\ ~IsNaN(getAttribute(el, "datetime"))
           /\ getElementYear(el) <= currentYear
  IN IF shouldShowWeekday
     THEN setAttribute(el, "weekday", "narrow")
     ELSE removeAttribute(el, "weekday")

applyYearFormatting(el, currentYear, currentSettings) ==
  LET policy == OrElse(currentSettings["showWeekday"], "olderYears")
      shouldShowWeekday ==
        \/ policy = "always"
        \/ /\ policy = "olderYears"
           /\ ~IsNaN(getAttribute(el, "datetime"))
           /\ getElementYear(el) < currentYear
  IN IF shouldShowWeekday
     THEN setAttribute(el, "weekday", "narrow")
     ELSE removeAttribute(el, "weekday")

applyTimeFormatting(el, currentSettings, pathname) ==
  LET policy == OrElse(currentSettings["showTime"], "actionsOnly")
      shouldShowTime ==
        \/ policy = "always"
        \/ policy = "actionsOnly" /\ isActionPage(pathname)
  IN IF shouldShowTime
     THEN LET e1 == setAttribute(el, "hour", "2-digit")
              e2 == setAttribute(e1, "minute", "2-digit")
          IN IF Truthy(currentSettings["includeSeconds"])
             THEN setAttribute(e2, "second", "2-digit")
             ELSE removeAttribute(e2, "second")
     ELSE removeAttributes(el, {"hour", "minute", "second"})

formatSingleElement(el, currentYear, currentSettings, pathname) ==
  applyTimeFormatting(
    applyYearFormatting(applyBaseFormatting(el, currentSettings),
                        currentYear, currentSettings),
    currentSettings, pathname)

(* document.querySelectorAll('relative-time[data-formatted="true"]') *)
formatted(d) ==
  {e \in Elems : d[e].present /\ getAttribute(d[e], "data-formatted") = "true"}

(* document.querySelectorAll("relative-time") *)
timeElements(d) == {e \in Elems : d[e].present}

unformatRelativeTimes(d) ==
  [dom |-> [e \in Elems |->
              IF e \in formatted(d) THEN removeAttributes(d[e], OwnedAttrs)
              ELSE d[e]],
   count |-> Cardinality(formatted(d))]

(* Variant: the route check comes before the enabled check. *)
formatRelativeTimes_routeFirst(enabled, currentSettings, pathname, d) ==
  IF isIgnoredRoute(pathname) THEN [dom |-> d, count |-> 0]
  ELSE IF ~Truthy(enabled) THEN unformatRelativeTimes(d)
  ELSE [dom |-> [e \in Elems |->
                   IF e \in timeElements(d)
                   THEN formatSingleElement(d[e], getCurrentYear,
                                            currentSettings, pathname)
                   ELSE d[e]],
        count |-> Cardinality(timeElements(d))]

(* Variant: no route check. *)
formatRelativeTimes_noRouteCheck(enabled, currentSettings, pathname, d) ==
  IF ~Truthy(enabled) THEN unformatRelativeTimes(d)
  ELSE [dom |-> [e \in Elems |->
                   IF e \in timeElements(d)
                   THEN formatSingleElement(d[e], getCurrentYear,
                                            currentSettings, pathname)
                   ELSE d[e]],
        count |-> Cardinality(timeElements(d))]

(* Variant: only the elements that need formatting are formatted and       *)
(* counted (.filter(needsFormatting), as in content.js lines 215-217).     *)
formatRelativeTimes_onlyUnformatted(enabled, currentSettings, pathname, d) ==
  IF ~Truthy(enabled) THEN unformatRelativeTimes(d)
  ELSE IF isIgnoredRoute(pathname) THEN [dom |-> d, count |-> 0]
  ELSE LET todo == {e \in timeElements(d) : needsFormatting(d[e])}
       IN [dom |-> [e \in Elems |->
                      IF e \in todo
                      THEN formatSingleElement(d[e], getCurrentYear,
                                               currentSettings, pathname)
                      ELSE d[e]],
           count |-> Cardinality(todo)]

(* Variant: with debug on, the pass only logs. *)
formatRelativeTimes_debugOnlyLogs(enabled, currentSettings, pathname, d) ==
  IF Truthy(currentSettings["debug"]) THEN [dom |-> d, count |-> 0]
  ELSE IF ~Truthy(enabled) THEN unformatRelativeTimes(d)
  ELSE IF isIgnoredRoute(pathname) THEN [dom |-> d, count |-> 0]
  ELSE [dom |-> [e \in Elems |->
                   IF e \in timeElements(d)
                   THEN formatSingleElement(d[e], getCurrentYear,
                                            currentSettings, pathname)
                   ELSE d[e]],
        count |-> Cardinality(timeElements(d))]

(* formatRelativeTimes(enabled, logger); it reads the settings snapshot    *)
(* and window.location.pathname, passed here as currentSettings, pathname. *)
formatRelativeTimes(enabled, currentSettings, pathname, d) ==
  IF ~Truthy(enabled) THEN unformatRelativeTimes(d)
  ELSE IF isIgnoredRoute(pathname) THEN [dom |-> d, count |-> 0]
  ELSE [dom |-> [e \in Elems |->
                   IF e \in timeElements(d)
                   THEN formatSingleElement(d[e], getCurrentYear,
                                            currentSettings, pathname)
                   ELSE d[e]],
        count |-> Cardinality(timeElements(d))]

(* Variant: the closure keeps the enabled flag of the defaults it was      *)
(* created with.                                                           *)
formatWithCurrentSettings_capturedDefaults(currentSettings, pathname, d) ==
  formatRelativeTimes(createDefaultSettings["enabled"], currentSettings, pathname, d)

(* formatWithCurrentSettings: reads the snapshot when it runs. *)
formatWithCurrentSettings(currentSettings, pathname, d) ==
  formatRelativeTimes(currentSettings["enabled"], currentSettings, pathname, d)

(***************************************************************************)
(* DOM utilities: mutation records and their classification.               *)
(* A node is its nodeType, its tagName and the number of relative-time     *)
(* elements in its subtree (querySelectorAll("relative-time").length).     *)
(***************************************************************************)
RelativeTimeNode == [nodeType |-> "ELEMENT_NODE", tagName |-> "RELATIVE-TIME", inside |-> 0]
WrapperNode == [nodeType |-> "ELEMENT_NODE", tagName |-> "DIV", inside |-> 1]
PlainNode == [nodeType |-> "ELEMENT_NODE", tagName |-> "DIV", inside |-> 0]
TextNode == [nodeType |-> "TEXT_NODE", tagName |-> "", inside |-> 0]

ChildList(added) ==
  [type |-> "childList", addedNodes |-> added, target |-> "DIV", attributeName |-> NoAttr]

AttributeChange(tag, name) ==
  [type |-> "attributes", addedNodes |-> {}, target |-> tag, attributeName |-> name]

(* Records that change no relative-time element: inserted text and plain   *)
(* elements, removed nodes, and a datetime rewritten on another element    *)
(* (the observer's attributeFilter lets every datetime change through).    *)
NoiseRecords ==
  { ChildList({TextNode}), ChildList({PlainNode}), ChildList({}),
    AttributeChange("TIME", "datetime") }

(* observerConfig: the records the observer is given are the childList     *)
(* records of the subtree and the attribute records the filter names.      *)
observerConfig ==
  [childList |-> TRUE, subtree |-> TRUE, attributes |-> TRUE,
   attributeFilter |-> {"datetime"}]

Observed(mutations) ==
  {m \in mutations :
     \/ m.type = "childList" /\ observerConfig.childList
     \/ /\ m.type = "attributes" /\ observerConfig.attributes
        /\ m.attributeName \in observerConfig.attributeFilter}

(* Variant: the pass also rewrites the datetime attribute. *)
PassRecords_writesDatetime(count) ==
  IF count = 0 THEN {}
  ELSE {AttributeChange("RELATIVE-TIME", a) : a \in OwnedAttrs \cup {"datetime"}}

(* The mutation records of a pass over count elements: setAttribute and    *)
(* removeAttribute on relative-time elements, of the formatter-owned       *)
(* attributes only; the pass inserts and removes no node.                  *)
PassRecords(count) ==
  IF count = 0 THEN {}
  ELSE {AttributeChange("RELATIVE-TIME", a) : a \in OwnedAttrs}

hasRelativeTimeElements(node) == node.inside > 0

(* Variant: only inserted nodes qualify, attribute records never do. *)
shouldTriggerFormatting_addedNodesOnly(mutation) ==
  /\ mutation.addedNodes # {}
  /\ \E node \in mutation.addedNodes :
       /\ node.nodeType = "ELEMENT_NODE"
       /\ node.tagName = "RELATIVE-TIME" \/ hasRelativeTimeElements(node)

(* Variant: any added element qualifies. *)
shouldTriggerFormatting_anyAddedElement(mutation) ==
  IF mutation.addedNodes # {}
  THEN \E node \in mutation.addedNodes : node.nodeType = "ELEMENT_NODE"
  ELSE /\ mutation.type = "attributes"
       /\ mutation.target = "RELATIVE-TIME"
       /\ mutation.attributeName = "datetime"

shouldTriggerFormatting(mutation) ==
  IF mutation.addedNodes # {}
  THEN \E node \in mutation.addedNodes :
         /\ node.nodeType = "ELEMENT_NODE"
         /\ node.tagName = "RELATIVE-TIME" \/ hasRelativeTimeElements(node)
  ELSE /\ mutation.type = "attributes"
       /\ mutation.target = "RELATIVE-TIME"
       /\ mutation.attributeName = "datetime"

processMutations(mutations) == \E m \in mutations : shouldTriggerFormatting(m)

(***************************************************************************)
(* The debounced formatter.  pending counts the debounce timeouts that are *)
(* set and have not fired; live says whether the timeout named by the      *)
(* closure's timeoutId is one of them.                                     *)
(***************************************************************************)
clearTimeout(t) ==
  IF t.live THEN [pending |-> t.pending - 1, live |-> FALSE] ELSE t

setTimeout(t) == [pending |-> t.pending + 1, live |-> TRUE]

(* Variant: the pending timeout is not cleared. *)
debouncedFormat_noClear(t) == setTimeout(t)

(* the function createDebouncedFormatter returns *)
debouncedFormat(t) == setTimeout(clearTimeout(t))

(***************************************************************************)
(* State.                                                                  *)
(***************************************************************************)
VARIABLES
  phase,      \* "loading": initializeExtension awaits loadSettings; "running"
  doc,        \* "nobody": no body yet; "loading": readyState loading; "ready"
  onDcl,      \* the DOMContentLoaded listeners registered: subset of {"format", "observe"}
  observing,  \* the MutationObserver is attached to document.body
  settings,   \* the settings snapshot of the content script
  storage,    \* chrome.storage.sync: key -> value or Absent
  writes,     \* number of storage writes made
  notifs,     \* storage.onChanged events not yet delivered to the listener
  path,       \* window.location.pathname
  dom,        \* the relative-time elements of the document
  debounce,   \* the debounce timeouts
  batches,    \* qualifying mutation batches since the last debounced pass (capped)
  navTimers,  \* number of pending navigation settle timeouts
  last,       \* the handler that ran last: its name, whether it ran a full pass, the pass's return value
  call        \* the settings-store call made last (settings pages and library), or NoCall

vars ==
  <<phase, doc, onDcl, observing, settings, storage, writes, notifs, path, dom,
    debounce, batches, navTimers, last, call>>

Ran(op, count) == [op |-> op, pass |-> TRUE, ret |-> count]
NoPass(op) == [op |-> "none", pass |-> FALSE, ret |-> 0]

NoCall == [fn |-> "none"]

Malformed == "bogus"

StoredValues(k) ==
  CASE k = "dateStyle" -> {"short", "long", Malformed}
    [] k = "showWeekday" -> {"never", "olderYears", "always"}
    [] k = "showTime" -> {"never", "actionsOnly", "always"}
    [] k = "debug" -> {}
    [] OTHER -> {"true", "false"}

(* What storage holds when the page loads: nothing (first run), or the     *)
(* whole settings object as the settings pages save it, with the           *)
(* formatter enabled or disabled.                                          *)
InitStorages ==
  { [k \in Keys |-> Absent],
    [k \in Keys |-> getDefaultSettings[k]],
    [k \in Keys |-> IF k = "enabled" THEN "false" ELSE getDefaultSettings[k]] }

Init ==
  /\ phase = "loading"
  /\ doc = "ready"
  /\ onDcl = {}
  /\ observing = FALSE
  /\ settings = createDefaultSettings
  /\ storage \in InitStorages
  /\ writes = 0
  /\ notifs = <<>>
  /\ path \in Paths
  /\ dom = [e \in Elems |-> NoElem]
  /\ debounce = [pending |-> 0, live |-> FALSE]
  /\ batches = 0
  /\ navTimers = 0
  /\ last = NoPass("start")
  /\ call = NoCall

(***************************************************************************)
(* Settings management.                                                    *)
(***************************************************************************)
(* chrome.storage.sync.get(defaults, callback): the stored values, the     *)
(* defaults for absent keys; the callback gets undefined when the read     *)
(* fails.                                                                  *)
storageGet(defaults, ok) ==
  IF ok
  THEN JsObject([k \in DOMAIN defaults |->
                   IF storage[k] = Absent THEN defaults[k] ELSE storage[k]])
  ELSE JsUndefined

(* Variant: a failed read resolves to a snapshot with the formatter off. *)
loadSettings_failureDisables(hasStorage, ok) ==
  IF hasStorage /\ ~ok
  THEN [createDefaultSettings EXCEPT !["enabled"] = "false"]
  ELSE coerceSettings(storageGet(createDefaultSettings, TRUE))

(* loadSettings of the content script: without chrome.storage it resolves  *)
(* to the defaults; window.absoluteTimeShared is defined whenever the      *)
(* script runs (line 377 dereferences it), so the coercing branch is the   *)
(* one taken.                                                              *)
loadSettings(hasStorage, ok) ==
  IF hasStorage
  THEN coerceSettings(storageGet(createDefaultSettings, ok))
  ELSE createDefaultSettings

(* Variant: the listener takes the changes of every storage area. *)
storageChangeListener_anyNamespace(changes, namespace) ==
  [k \in (DOMAIN changes) \cap Keys |-> changes[k]]

(* The listener of chrome.storage.onChanged: the patch it hands to         *)
(* onSettingsChange, or the empty patch when it returns early.             *)
storageChangeListener(changes, namespace) ==
  IF namespace # "sync" THEN << >>
  ELSE [k \in (DOMAIN changes) \cap Keys |-> changes[k]]

(* Variant: the snapshot is replaced and no pass runs (content.js lines    *)
(* 306-310).                                                               *)
handleSettingsChange_noPass(currentSettings, newSettings, pathname, d) ==
  [settings |-> updateSettings(currentSettings, newSettings),
   result |-> [dom |-> d, count |-> 0]]

(* Variant: the pass runs before the snapshot is replaced. *)
handleSettingsChange_passFirst(currentSettings, newSettings, pathname, d) ==
  [settings |-> updateSettings(currentSettings, newSettings),
   result |-> formatWithCurrentSettings(currentSettings, pathname, d)]

(* handleSettingsChange(newSettings): the new snapshot and the pass. *)
handleSettingsChange(currentSettings, newSettings, pathname, d) ==
  LET s == updateSettings(currentSettings, newSettings)
  IN [settings |-> s, result |-> formatWithCurrentSettings(s, pathname, d)]

(***************************************************************************)
(* The MutationObserver callback.                                          *)
(***************************************************************************)
(* Variant: the callback classifies the batch and schedules nothing. *)
observerCallback_neverSchedules(t, mutations) ==
  IF processMutations(mutations) THEN t ELSE t

observerCallback(t, mutations) ==
  IF processMutations(mutations) THEN debouncedFormat(t) ELSE t

(* The observer, when attached, is called with the records it observes    *)
(* (not at all when there is none); t is the debounce state, b the batch   *)
(* count.                                                                  *)
Notify(t, mutations) ==
  IF observing /\ Observed(mutations) # {}
  THEN observerCallback(t, Observed(mutations))
  ELSE t

Counted(b, mutations) ==
  IF observing /\ processMutations(Observed(mutations))
  THEN (IF b < MaxBatches THEN b + 1 ELSE b)
  ELSE b

Observe(mutations) ==
  /\ debounce' = Notify(debounce, mutations)
  /\ batches' = Counted(batches, mutations)

(***************************************************************************)
(* initializeExtension, after loadSettings resolves.                       *)
(***************************************************************************)
(* Variant: the initial pass runs with the snapshot held before the load   *)
(* resolved.                                                               *)
InitLoaded_passBeforeLoad ==
  /\ phase = "loading"
  /\ \E ok \in BOOLEAN :
       LET s == updateSettings(settings, loadSettings(TRUE, ok))
           r == formatWithCurrentSettings(settings, path, dom)
       IN /\ settings' = s
          /\ IF doc = "ready"
             THEN dom' = r.dom /\ last' = Ran("init", r.count)
             ELSE dom' = dom /\ last' = NoPass("init")
  /\ phase' = "running"
  /\ onDcl' = (IF doc = "ready" THEN {} ELSE {"format"})
                 \cup (IF doc = "nobody" THEN {"observe"} ELSE {})
  /\ observing' = (doc # "nobody")
  /\ UNCHANGED <<call, doc, storage, writes, notifs, path, debounce, batches, navTimers>>

InitLoaded ==
  /\ phase = "loading"
  /\ \E ok \in BOOLEAN :
       LET s == updateSettings(settings, loadSettings(TRUE, ok))
           r == formatWithCurrentSettings(s, path, dom)
       IN /\ settings' = s
          /\ IF doc = "ready"
             THEN dom' = r.dom /\ last' = Ran("init", r.count)
             ELSE dom' = dom /\ last' = NoPass("init")
  /\ phase' = "running"
  /\ onDcl' = (IF doc = "ready" THEN {} ELSE {"format"})
                 \cup (IF doc = "nobody" THEN {"observe"} ELSE {})
  /\ observing' = (doc # "nobody")
  /\ UNCHANGED <<call, doc, storage, writes, notifs, path, debounce, batches, navTimers>>

(* The parser creates document.body. *)
BodyParsed ==
  /\ doc = "nobody"
  /\ doc' = "loading"
  /\ last' = NoPass("body")
  /\ UNCHANGED <<call, phase, onDcl, observing, settings, storage, writes, notifs, path,
                 dom, debounce, batches, navTimers>>

(* Variant: the DOMContentLoaded listener that attaches the observer is    *)
(* never registered.                                                       *)
DOMContentLoaded_noAttach ==
  /\ doc = "loading"
  /\ doc' = "ready"
  /\ LET r == formatWithCurrentSettings(settings, path, dom)
     IN IF "format" \in onDcl
        THEN dom' = r.dom /\ last' = Ran("dcl", r.count) /\ Observe(PassRecords(r.count))
        ELSE dom' = dom /\ last' = NoPass("dcl") /\ UNCHANGED <<debounce, batches>>
  /\ observing' = observing
  /\ onDcl' = {}
  /\ UNCHANGED <<call, phase, settings, storage, writes, notifs, path, navTimers>>

(* DOMContentLoaded: the listeners registered by initializeExtension run. *)
DOMContentLoaded ==
  /\ doc = "loading"
  /\ doc' = "ready"
  /\ LET r == formatWithCurrentSettings(settings, path, dom)
     IN IF "format" \in onDcl
        THEN dom' = r.dom /\ last' = Ran("dcl", r.count) /\ Observe(PassRecords(r.count))
        ELSE dom' = dom /\ last' = NoPass("dcl") /\ UNCHANGED <<debounce, batches>>
  /\ observing' = (observing \/ "observe" \in onDcl)
  /\ onDcl' = {}
  /\ UNCHANGED <<call, phase, settings, storage, writes, notifs, path, navTimers>>

(***************************************************************************)
(* The host page.  A host task changes the document; the MutationObserver  *)
(* callback runs with the task's records before any other handler.         *)
(***************************************************************************)
HostUnchanged ==
  UNCHANGED <<call, phase, doc, onDcl, observing, settings, storage, writes, notifs, path,
              navTimers>>

HostInsert ==
  /\ doc # "nobody"
  /\ \E e \in Elems, dt \in Datetimes, host \in HostAttrs, wrapped \in BOOLEAN,
        noise \in {{}, {ChildList({TextNode})}} :
       /\ ~dom[e].present
       /\ \A x \in Elems : x < e => dom[x].present
       /\ dom' = [dom EXCEPT ![e] = HostElem(dt, host)]
       /\ Observe({ChildList({IF wrapped THEN WrapperNode ELSE RelativeTimeNode})}
                    \cup noise)
  /\ last' = NoPass("host")
  /\ HostUnchanged

HostRemove ==
  /\ \E e \in Elems :
       /\ dom[e].present
       /\ dom' = [dom EXCEPT ![e] = NoElem]
       /\ Observe({ChildList({})})
  /\ last' = NoPass("host")
  /\ HostUnchanged

HostSetDatetime ==
  /\ \E e \in Elems, dt \in Datetimes :
       /\ dom[e].present
       /\ dom[e].attrs["datetime"] # dt
       /\ dom' = [dom EXCEPT ![e].attrs["datetime"] = dt, ![e].orig["datetime"] = dt]
       /\ Observe({AttributeChange("RELATIVE-TIME", "datetime")})
  /\ last' = NoPass("host")
  /\ HostUnchanged

HostNoise ==
  /\ doc # "nobody"
  /\ \E m \in NoiseRecords : Observe({m})
  /\ last' = NoPass("host")
  /\ dom' = dom
  /\ HostUnchanged

(* Client-side navigation changes the pathname (history.pushState). *)
Navigate ==
  /\ \E p \in Paths : p # path /\ path' = p
  /\ last' = NoPass("navigate")
  /\ UNCHANGED <<call, phase, doc, onDcl, observing, settings, storage, writes, notifs,
                 dom, debounce, batches, navTimers>>

(***************************************************************************)
(* Storage: another context sets or removes a key; the change is queued    *)
(* for the content script when its listener is registered.                 *)
(***************************************************************************)
Changed(k, newValue) ==
  IF phase = "running"
  THEN Append(notifs, [namespace |-> "sync", changes |-> [x \in {k} |-> newValue]])
  ELSE notifs

StorageSet ==
  /\ writes < MaxWrites
  /\ \E k \in Keys : \E v \in StoredValues(k) :
       /\ storage[k] # v
       /\ storage' = [storage EXCEPT ![k] = v]
       /\ notifs' = Changed(k, v)
  /\ writes' = writes + 1
  /\ last' = NoPass("write")
  /\ UNCHANGED <<call, phase, doc, onDcl, observing, settings, path, dom, debounce,
                 batches, navTimers>>

StorageRemove ==
  /\ writes < MaxWrites
  /\ \E k \in Keys :
       /\ storage[k] # Absent
       /\ storage' = [storage EXCEPT ![k] = Absent]
       /\ notifs' = Changed(k, Undefined)
  /\ writes' = writes + 1
  /\ last' = NoPass("write")
  /\ UNCHANGED <<call, phase, doc, onDcl, observing, settings, path, dom, debounce,
                 batches, navTimers>>

(* chrome.storage.onChanged fires in the content script. *)
DeliverChange ==
  /\ notifs # <<>>
  /\ LET updated == storageChangeListener(Head(notifs).changes, Head(notifs).namespace)
         h == handleSettingsChange(settings, updated, path, dom)
     IN IF DOMAIN updated # {}
        THEN /\ settings' = h.settings
             /\ dom' = h.result.dom
             /\ last' = Ran("change", h.result.count)
             /\ Observe(PassRecords(h.result.count))
        ELSE /\ UNCHANGED <<settings, dom, debounce, batches>>
             /\ last' = NoPass("change")
  /\ notifs' = Tail(notifs)
  /\ UNCHANGED <<call, phase, doc, onDcl, observing, storage, writes, path, navTimers>>

(***************************************************************************)
(* Timers and navigation events.                                           *)
(***************************************************************************)
NavEvents == {"turbo:load", "turbo:render", "turbo:frame-load", "pjax:end"}

(* navHandler: setTimeout(formatWithCurrentSettings, 1000) *)
NavEvent ==
  /\ phase = "running"
  /\ navTimers < MaxNavTimers
  /\ \E ev \in NavEvents : navTimers' = navTimers + 1
  /\ last' = NoPass("navEvent")
  /\ UNCHANGED <<call, phase, doc, onDcl, observing, settings, storage, writes, notifs,
                 path, dom, debounce, batches>>

(* Variant: one settle timeout serves all pending navigation events. *)
NavFire_coalesced ==
  /\ navTimers > 0
  /\ navTimers' = 0
  /\ LET r == formatWithCurrentSettings(settings, path, dom)
     IN dom' = r.dom /\ last' = Ran("nav", r.count) /\ Observe(PassRecords(r.count))
  /\ UNCHANGED <<call, phase, doc, onDcl, observing, settings, storage, writes, notifs,
                 path>>

NavFire ==
  /\ navTimers > 0
  /\ navTimers' = navTimers - 1
  /\ LET r == formatWithCurrentSettings(settings, path, dom)
     IN dom' = r.dom /\ last' = Ran("nav", r.count) /\ Observe(PassRecords(r.count))
  /\ UNCHANGED <<call, phase, doc, onDcl, observing, settings, storage, writes, notifs,
                 path>>

(* A debounce timeout fires: the one timeoutId names, or an older one. *)
DebounceFire ==
  /\ debounce.pending > 0
  /\ \E named \in BOOLEAN :
       LET r == formatWithCurrentSettings(settings, path, dom)
           fired == [pending |-> debounce.pending - 1,
                     live |-> debounce.live /\ ~named]
       IN /\ named => debounce.live
          /\ ~named => debounce.pending > (IF debounce.live THEN 1 ELSE 0)
          /\ dom' = r.dom /\ last' = Ran("debounce", r.count)
          /\ debounce' = Notify(fired, PassRecords(r.count))
          /\ batches' = Counted(0, PassRecords(r.count))
  /\ UNCHANGED <<call, phase, doc, onDcl, observing, settings, storage, writes, notifs,
                 path, navTimers>>

Next ==
  \/ InitLoaded
  \/ HostInsert
  \/ HostRemove
  \/ HostSetDatetime
  \/ HostNoise
  \/ Navigate
  \/ StorageSet
  \/ StorageRemove
  \/ DeliverChange
  \/ NavEvent
  \/ NavFire
  \/ DebounceFire

Spec == Init /\ [][Next]_vars

(***************************************************************************)
(* The same script injected while the document is still loading.           *)
(***************************************************************************)
InitBoot ==
  /\ phase = "loading"
  /\ doc \in {"nobody", "loading"}
  /\ onDcl = {}
  /\ observing = FALSE
  /\ settings = createDefaultSettings
  /\ storage \in InitStorages
  /\ writes = 0
  /\ notifs = <<>>
  /\ path \in Paths
  /\ dom = [e \in Elems |-> NoElem]
  /\ debounce = [pending |-> 0, live |-> FALSE]
  /\ batches = 0
  /\ navTimers = 0
  /\ last = NoPass("start")
  /\ call = NoCall

NextBoot == Next \/ BodyParsed \/ DOMContentLoaded

SpecBoot == InitBoot /\ [][NextBoot]_vars

(***************************************************************************)
(* The settings store as the settings pages (popup.js, options.js) and the *)
(* content script use it, one call at a time: call records the function,   *)
(* its arguments and what it returned.                                     *)
(***************************************************************************)
defaultSettings == createDefaultSettings

(* chrome.storage.sync.get(defaults) as a promise: it resolves to the      *)
(* stored object, resolves to undefined, or rejects.                       *)
GetOutcomes == {"object", "undefined", "rejects"}

(* loadSettings of the settings pages: result || defaultSettings, and the  *)
(* defaults when the read rejects.                                         *)
pageLoadSettings(outcome) ==
  IF outcome = "rejects" THEN defaultSettings
  ELSE LET result == storageGet(defaultSettings, outcome = "object")
       IN IF result.type = "object" THEN result.fields ELSE defaultSettings

(* chrome.storage.sync.set(items): every item is written, or the promise   *)
(* rejects and nothing is written.                                         *)
storageSet(stored, items, ok) == IF ok THEN Merge(stored, items) ELSE stored

(* Variant: a failed write is tried once more. oks[i] is the outcome of    *)
(* the i-th call of set.                                                   *)
saveSettings_retry(stored, newSettings, oks) ==
  IF oks[1]
  THEN [storage |-> storageSet(stored, newSettings, TRUE), threw |-> FALSE, sets |-> 1]
  ELSE [storage |-> storageSet(stored, newSettings, oks[2]), threw |-> ~oks[2], sets |-> 2]

(* saveSettings of the settings pages: one call of set, the error thrown   *)
(* again.                                                                  *)
saveSettings(stored, newSettings, oks) ==
  [storage |-> storageSet(stored, newSettings, oks[1]), threw |-> ~oks[1], sets |-> 1]

(* The values a caller supplies for a field. *)
SuppliedValues(k) ==
  CASE k = "dateStyle" -> {"long", Malformed, Undefined}
    [] k = "showWeekday" -> {"never", Malformed, Undefined}
    [] k = "showTime" -> {"always", Malformed, Undefined}
    [] OTHER -> {"true", "false", "yes", ""}

(* The own properties of f: the keys it does not leave out. *)
Own(f) == [k \in {x \in DOMAIN f : f[x] # Absent} |-> f[k]]

PartialObjects ==
  { Own(f) : f \in { g \in [Keys -> {Absent, "long", "never", "always", Malformed,
                                       Undefined, "true", "false", "yes", ""}] :
                       \A k \in Keys : g[k] \in SuppliedValues(k) \cup {Absent} } }

CoerceArgs == {JsNull, JsUndefined} \cup {JsObject(f) : f \in PartialObjects}

(* Settings values the pages hold, and the patches they apply. *)
SettingsValues ==
  { [getDefaultSettings EXCEPT !["enabled"] = e, !["includeSeconds"] = i,
                               !["dateStyle"] = d] :
      e \in {"true", "false"}, i \in {"true", "false"}, d \in {"short", "long"} }

Patches ==
  { f \in PartialObjects :
      /\ DOMAIN f \subseteq {"enabled", "dateStyle", "showTime"}
      /\ \A k \in DOMAIN f : f[k] \in {"true", "false", "long", Malformed, "always"} }

(* What storage may hold when a settings page opens: as at page load, or   *)
(* with a value no current version writes.                                 *)
StoreContents ==
  InitStorages \cup {[k \in Keys |-> IF k = "dateStyle" THEN Malformed
                                      ELSE getDefaultSettings[k]]}

InitStore ==
  /\ phase = "loading"
  /\ doc = "ready"
  /\ onDcl = {}
  /\ observing = FALSE
  /\ settings = createDefaultSettings
  /\ storage \in StoreContents
  /\ writes = 0
  /\ notifs = <<>>
  /\ path = PathCommits
  /\ dom = [e \in Elems |-> NoElem]
  /\ debounce = [pending |-> 0, live |-> FALSE]
  /\ batches = 0
  /\ navTimers = 0
  /\ last = NoPass("start")
  /\ call = NoCall

ScriptUnchanged ==
  UNCHANGED <<phase, doc, onDcl, observing, settings, writes, notifs, path, dom,
              debounce, batches, navTimers, last>>

CallCoerce ==
  /\ call = NoCall
  /\ \E partial \in CoerceArgs :
       call' = [fn |-> "coerceSettings", arg |-> partial, ret |-> coerceSettings(partial)]
  /\ UNCHANGED storage
  /\ ScriptUnchanged

CallUpdate ==
  /\ call = NoCall
  /\ \E current \in SettingsValues, patch \in Patches :
       call' = [fn |-> "updateSettings", current |-> current, patch |-> patch,
                ret |-> updateSettings(current, patch)]
  /\ UNCHANGED storage
  /\ ScriptUnchanged

CallToggle ==
  /\ call = NoCall
  /\ \E current \in SettingsValues, key \in BoolKeys :
       call' = [fn |-> "toggleSetting", current |-> current, key |-> key,
                ret |-> toggleSetting(current, key),
                twice |-> toggleSetting(toggleSetting(current, key), key)]
  /\ UNCHANGED storage
  /\ ScriptUnchanged

ContentLoad ==
  /\ call = NoCall
  /\ \E hasStorage \in BOOLEAN, ok \in BOOLEAN :
       call' = [fn |-> "loadSettings", caller |-> "content",
                read |-> hasStorage /\ ok, threw |-> FALSE,
                ret |-> loadSettings(hasStorage, ok)]
  /\ UNCHANGED storage
  /\ ScriptUnchanged

PageLoad ==
  /\ call = NoCall
  /\ \E outcome \in GetOutcomes :
       call' = [fn |-> "loadSettings", caller |-> "page",
                read |-> (outcome = "object"), threw |-> FALSE,
                ret |-> pageLoadSettings(outcome)]
  /\ UNCHANGED storage
  /\ ScriptUnchanged

PageSave ==
  /\ call = NoCall
  /\ \E newSettings \in SettingsValues, oks \in [1..2 -> BOOLEAN] :
       LET r == saveSettings(storage, newSettings, oks)
       IN /\ storage' = r.storage
          /\ call' = [fn |-> "saveSettings", arg |-> newSettings, before |-> storage,
                      ok |-> oks[1], threw |-> r.threw, sets |-> r.sets]
  /\ ScriptUnchanged

(***************************************************************************)
(* The options page: its controls and the handlers of its events.  ui is   *)
(* what the controls show: aria-checked of the three toggles and the value *)
(* of the three selects.  A handler returns storage, the controls and the  *)
(* notification shown: "saved", "error", or "none".                        *)
(***************************************************************************)
updateUiElements(s) ==
  [enabled |-> Boolean(s["enabled"]),
   debug |-> Boolean(s["debug"]),
   includeSeconds |-> Boolean(s["includeSeconds"]),
   dateStyle |-> OrElse(s["dateStyle"], "short"),
   showWeekday |-> OrElse(s["showWeekday"], "olderYears"),
   showTime |-> OrElse(s["showTime"], "actionsOnly")]

(* createToggleHandler(settingKey): load, toggle, save, update the         *)
(* controls, notify; a failure anywhere shows the error notification.      *)
createToggleHandler(settingKey, ui, outcome, oks) ==
  LET currentSettings == pageLoadSettings(outcome)
      newSettings == toggleSetting(currentSettings, settingKey)
      saved == saveSettings(storage, newSettings, oks)
  IN IF saved.threw
     THEN [storage |-> saved.storage, ui |-> ui, notification |-> "error"]
     ELSE [storage |-> saved.storage, ui |-> updateUiElements(newSettings),
           notification |-> "saved"]

(* The change listener of a select: no try/catch, so a save that throws    *)
(* ends the handler with an unhandled rejection.  ui already shows the     *)
(* option the user picked.                                                 *)
selectChangeListener(key, value, ui, outcome, oks) ==
  LET current == pageLoadSettings(outcome)
      next == updateSettings(current, [k \in {key} |-> value])
      saved == saveSettings(storage, next, oks)
  IN IF saved.threw
     THEN [storage |-> saved.storage, ui |-> ui, notification |-> "none"]
     ELSE [storage |-> saved.storage, ui |-> updateUiElements(next),
           notification |-> "saved"]

(* The click listener of the reset button: no try/catch either. *)
resetClickListener(ui, oks) ==
  LET defaults == createDefaultSettings
      saved == saveSettings(storage, defaults, oks)
  IN IF saved.threw
     THEN [storage |-> saved.storage, ui |-> ui, notification |-> "none"]
     ELSE [storage |-> saved.storage, ui |-> updateUiElements(defaults),
           notification |-> "saved"]

SelectOptions(k) ==
  CASE k = "dateStyle" -> {"short", "long"}
    [] k = "showWeekday" -> {"never", "olderYears", "always"}
    [] k = "showTime" -> {"never", "actionsOnly", "always"}

(* The controls as the page drew them from storage when it opened. *)
ShownControls == updateUiElements(pageLoadSettings("object"))

OptionsToggle ==
  /\ call = NoCall
  /\ \E key \in BoolKeys, outcome \in GetOutcomes, oks \in [1..2 -> BOOLEAN] :
       LET r == createToggleHandler(key, ShownControls, outcome, oks)
       IN /\ storage' = r.storage
          /\ call' = [fn |-> "optionsToggle", key |-> key, shown |-> ShownControls,
                      threw |-> ~oks[1], ui |-> r.ui, notification |-> r.notification]
  /\ ScriptUnchanged

OptionsSelect ==
  /\ call = NoCall
  /\ \E key \in {"dateStyle", "showWeekday", "showTime"}, outcome \in GetOutcomes,
        oks \in [1..2 -> BOOLEAN] :
       \E value \in SelectOptions(key) \ {ShownControls[key]} :
         LET picked == [ShownControls EXCEPT ![key] = value]
             r == selectChangeListener(key, value, picked, outcome, oks)
         IN /\ storage' = r.storage
            /\ call' = [fn |-> "optionsSelect", key |-> key, shown |-> ShownControls,
                        threw |-> ~oks[1], ui |-> r.ui, notification |-> r.notification]
  /\ ScriptUnchanged

OptionsReset ==
  /\ call = NoCall
  /\ \E oks \in [1..2 -> BOOLEAN] :
       LET r == resetClickListener(ShownControls, oks)
       IN /\ storage' = r.storage
          /\ call' = [fn |-> "optionsReset", key |-> "all", shown |-> ShownControls,
                      threw |-> ~oks[1], ui |-> r.ui, notification |-> r.notification]
  /\ ScriptUnchanged

(* The caller takes the result. *)
Return ==
  /\ call # NoCall
  /\ call' = NoCall
  /\ UNCHANGED storage
  /\ ScriptUnchanged

NextStore ==
  \/ CallCoerce
  \/ CallUpdate
  \/ CallToggle
  \/ ContentLoad
  \/ PageLoad
  \/ PageSave
  \/ Return

SpecStore == InitStore /\ [][NextStore]_vars

(* The options page alone: one event at a time. *)
NextOptions == OptionsToggle \/ OptionsSelect \/ OptionsReset \/ Return

SpecOptions == InitStore /\ [][NextOptions]_vars

(***************************************************************************)
(* The host page also edits attributes of relative-time elements: it       *)
(* removes one (a re-render that resets the element, a script that clears  *)
(* data-* attributes).  Such a record names an attribute outside the       *)
(* observer's filter.                                                      *)
(***************************************************************************)
HostEditedAttrs == {"data-formatted", "format"}

HostRemoveAttribute ==
  /\ \E e \in Elems, a \in HostEditedAttrs :
       /\ dom[e].present
       /\ getAttribute(dom[e], a) # NoAttr
       /\ dom' = [dom EXCEPT ![e] = [removeAttribute(@, a) EXCEPT !.orig[a] = NoAttr]]
       /\ Observe({AttributeChange("RELATIVE-TIME", a)})
  /\ last' = NoPass("host")
  /\ HostUnchanged

NextHost == Next \/ HostRemoveAttribute

SpecHost == Init /\ [][NextHost]_vars

(***************************************************************************)
(* The content script with the debug setting stored and changed.           *)
(***************************************************************************)
InitDebug ==
  /\ phase = "loading"
  /\ doc = "ready"
  /\ onDcl = {}
  /\ observing = FALSE
  /\ settings = createDefaultSettings
  /\ storage \in {[k \in Keys |-> Absent],
                   [k \in Keys |-> IF k = "debug" THEN "true" ELSE getDefaultSettings[k]]}
  /\ writes = 0
  /\ notifs = <<>>
  /\ path \in Paths
  /\ dom = [e \in Elems |-> NoElem]
  /\ debounce = [pending |-> 0, live |-> FALSE]
  /\ batches = 0
  /\ navTimers = 0
  /\ last = NoPass("start")
  /\ call = NoCall

StorageSetDebug ==
  /\ writes < MaxWrites
  /\ \E v \in {"true", "false"} :
       /\ storage["debug"] # v
       /\ storage' = [storage EXCEPT !["debug"] = v]
       /\ notifs' = Changed("debug", v)
  /\ writes' = writes + 1
  /\ last' = NoPass("write")
  /\ UNCHANGED <<call, phase, doc, onDcl, observing, settings, path, dom, debounce,
                 batches, navTimers>>

NextDebug == Next \/ StorageSetDebug

SpecDebug == InitDebug /\ [][NextDebug]_vars

(***************************************************************************)
(* The content script with its timers and handlers scheduled fairly: a     *)
(* timeout that is set fires, a queued storage event is delivered, and     *)
(* loadSettings resolves.                                                  *)
(***************************************************************************)
SpecLive ==
  /\ Init /\ [][Next]_vars
  /\ WF_vars(InitLoaded)
  /\ WF_vars(DeliverChange)
  /\ WF_vars(NavFire)
  /\ WF_vars(DebounceFire)

(***************************************************************************)
(* The MutationObserver callback on the batches a host task can produce,   *)
(* with the debounce timeout idle or pending; call records the batch.      *)
(***************************************************************************)
MutationRecords ==
  { ChildList({RelativeTimeNode}), ChildList({WrapperNode}),
    ChildList({PlainNode}), ChildList({TextNode}),
    ChildList({TextNode, RelativeTimeNode}), ChildList({}),
    AttributeChange("RELATIVE-TIME", "datetime"),
    AttributeChange("TIME", "datetime"),
    AttributeChange("RELATIVE-TIME", "format") }

InitObserver ==
  /\ phase = "running"
  /\ doc = "ready"
  /\ onDcl = {}
  /\ observing = TRUE
  /\ settings = createDefaultSettings
  /\ storage = [k \in Keys |-> Absent]
  /\ writes = 0
  /\ notifs = <<>>
  /\ path = PathCommits
  /\ dom = [e \in Elems |-> NoElem]
  /\ \/ debounce = [pending |-> 0, live |-> FALSE] /\ batches = 0
     \/ debounce = [pending |-> 1, live |-> TRUE] /\ batches = 1
  /\ navTimers = 0
  /\ last = NoPass("start")
  /\ call = NoCall

ObserverBatch ==
  /\ call = NoCall
  /\ \E mutations \in (SUBSET MutationRecords) \ {{}} :
       /\ call' = [fn |-> "MutationObserver", mutations |-> mutations]
       /\ Observe(mutations)
  /\ last' = NoPass("host")
  /\ UNCHANGED <<phase, doc, onDcl, observing, settings, storage, writes, notifs, path,
                 dom, navTimers>>

NextObserver == ObserverBatch \/ Return \/ DebounceFire

SpecObserver == InitObserver /\ [][NextObserver]_vars

(***************************************************************************)
(* The runtime message listener (content.js lines 66-86) with the handler  *)
(* it is given (lines 306-310).  A settings page sends the whole settings  *)
(* object it saved (options.js notifyContentScripts); the message counts   *)
(* as a write.                                                             *)
(***************************************************************************)
handleSettingsMessage(message) ==
  IF message.type = "settingsChanged" THEN JsObject(message.settings) ELSE JsNull

(* The listener setupMessageListener registers, applied to the snapshot:   *)
(* onSettingsChange replaces the snapshot and logs.                        *)
onMessage(currentSettings, message) ==
  LET newSettings == handleSettingsMessage(message)
  IN IF newSettings.type = "object"
     THEN updateSettings(currentSettings, newSettings.fields)
     ELSE currentSettings

Messages ==
  { [type |-> "settingsChanged", settings |-> s] :
      s \in { [getDefaultSettings EXCEPT !["enabled"] = "false"],
              [getDefaultSettings EXCEPT !["dateStyle"] = "long"],
              [getDefaultSettings EXCEPT !["showWeekday"] = "never"] } }
  \cup { [type |-> "ping", settings |-> << >>] }

RuntimeMessage ==
  /\ phase = "running"
  /\ writes < MaxWrites
  /\ \E message \in Messages :
       /\ settings' = onMessage(settings, message)
       /\ call' = [fn |-> "onMessage", message |-> message]
  /\ writes' = writes + 1
  /\ last' = [op |-> "message", pass |-> FALSE, ret |-> 0]
  /\ UNCHANGED <<phase, doc, onDcl, observing, storage, notifs, path, dom, debounce,
                 batches, navTimers>>

NextMessage == Next \/ RuntimeMessage

SpecMessage == Init /\ [][NextMessage]_vars

(***************************************************************************)
(* Saving with notification of the open GitHub tabs (options.js lines      *)
(* 652-706, over the tabs wrapper of content.js lines 869-905).  A tab is  *)
(* its id; receives[t] says whether a content script listens in tab t.     *)
(* A promise is "resolved" or "rejected".                                  *)
(***************************************************************************)
Tabs == 1..MaxTabs

ApiStyles == {"chrome", "firefox"}

(* createTabsApi().sendMessage: the callback style rejects with            *)
(* runtime.lastError, the promise style swallows the error.                *)
tabsSendMessage(style, receives, tabId) ==
  IF receives[tabId] THEN "resolved"
  ELSE IF style = "chrome" THEN "rejected" ELSE "resolved"

(* sendMessageToTab: try { await sendMessage } catch { } *)
sendMessageToTab(style, receives, tabId) ==
  [sent |-> TRUE, promise |-> "resolved",
   inner |-> tabsSendMessage(style, receives, tabId)]

(* Promise.allSettled never rejects. *)
allSettled(promises) == "resolved"

(* Variant: the tabs are messaged one after the other, each send awaited   *)
(* without a catch: the first rejection ends the loop and is thrown.       *)
notifyContentScripts_awaitEach(style, receives, queryOk) ==
  LET failing == {t \in Tabs : tabsSendMessage(style, receives, t) = "rejected"}
      sent == {t \in Tabs : \A u \in failing : t <= u}
  IN IF ~queryOk THEN [sent |-> {}, delivered |-> {}, promise |-> "resolved"]
     ELSE [sent |-> sent,
           delivered |-> {t \in sent : receives[t]},
           promise |-> IF failing = {} THEN "resolved" ELSE "rejected"]

(* notifyContentScripts: query the tabs, start a send for every tab, wait  *)
(* for all of them to settle; any exception is logged.                     *)
notifyContentScripts(style, receives, queryOk) ==
  IF ~queryOk THEN [sent |-> {}, delivered |-> {}, promise |-> "resolved"]
  ELSE LET notifications == [t \in Tabs |-> sendMessageToTab(style, receives, t)]
       IN [sent |-> {t \in Tabs : notifications[t].sent},
           delivered |-> {t \in Tabs : notifications[t].sent /\ receives[t]},
           promise |-> allSettled({notifications[t].promise : t \in Tabs})]

(* saveSettings of the notifying variant: set, then notify; an error of    *)
(* either is thrown again.                                                 *)
saveSettingsNotifying(stored, newSettings, setOk, style, receives, queryOk) ==
  IF ~setOk
  THEN [storage |-> stored, threw |-> TRUE, sent |-> {}, delivered |-> {}]
  ELSE LET n == notifyContentScripts(style, receives, queryOk)
       IN [storage |-> storageSet(stored, newSettings, TRUE),
           threw |-> (n.promise = "rejected"),
           sent |-> n.sent, delivered |-> n.delivered]

SaveNotify ==
  /\ call = NoCall
  /\ \E newSettings \in SettingsValues, setOk \in BOOLEAN, queryOk \in BOOLEAN,
        style \in ApiStyles, receives \in [Tabs -> BOOLEAN] :
       LET r == saveSettingsNotifying(storage, newSettings, setOk, style, receives, queryOk)
       IN /\ storage' = r.storage
          /\ call' = [fn |-> "saveSettingsNotifying", arg |-> newSettings,
                      setOk |-> setOk, queryOk |-> queryOk, style |-> style,
                      receives |-> receives, threw |-> r.threw,
                      sent |-> r.sent, delivered |-> r.delivered]
  /\ ScriptUnchanged

NextNotify == SaveNotify \/ Return

SpecNotify == InitStore /\ [][NextNotify]_vars

(***************************************************************************)
(* Two events of the settings UI handled concurrently.  A handler is an    *)
(* async function: it awaits loadSettings, computes the new object, awaits *)
(* saveSettings; another handler can run at each await.  call holds the    *)
(* two handlers: the field each edits, its position, and the object it     *)
(* loaded.                                                                 *)
(***************************************************************************)
EditedKeys == {"enabled", "includeSeconds", "dateStyle", "showTime"}

(* The value a handler's event carries: none for a toggle, the picked      *)
(* option for a select.                                                    *)
EventValues(k) == IF k \in BoolKeys THEN {"toggle"} ELSE SelectOptions(k)

(* What the handler saves: toggleSetting(current, key) for a toggle,       *)
(* updateSettings(current, {key: value}) for a select.                     *)
editedSettings(current, key, value) ==
  IF key \in BoolKeys THEN toggleSetting(current, key)
  ELSE updateSettings(current, [k \in {key} |-> value])

EditsBegin ==
  /\ call = NoCall
  /\ \E k1 \in EditedKeys, k2 \in EditedKeys :
       /\ k1 # k2
       /\ \E v1 \in EventValues(k1), v2 \in EventValues(k2) :
            call' = [fn |-> "edits",
                     handlers |->
                       [i \in 1..2 |->
                          [key |-> IF i = 1 THEN k1 ELSE k2,
                           value |-> IF i = 1 THEN v1 ELSE v2,
                           pc |-> "start",
                           current |-> defaultSettings,
                           wrote |-> Absent]]]
  /\ UNCHANGED storage
  /\ ScriptUnchanged

(* const current = await loadSettings() *)
EditLoad ==
  /\ call.fn = "edits"
  /\ \E i \in 1..2 :
       /\ call.handlers[i].pc = "start"
       /\ call' = [call EXCEPT !.handlers[i].pc = "loaded",
                               !.handlers[i].current = pageLoadSettings("object")]
  /\ UNCHANGED storage
  /\ ScriptUnchanged

(* await saveSettings(next) *)
EditSave ==
  /\ call.fn = "edits"
  /\ \E i \in 1..2 :
       LET h == call.handlers[i]
           next == editedSettings(h.current, h.key, h.value)
       IN /\ h.pc = "loaded"
          /\ storage' = saveSettings(storage, next, [n \in 1..2 |-> TRUE]).storage
          /\ call' = [call EXCEPT !.handlers[i].pc = "done",
                                  !.handlers[i].wrote = next[h.key]]
  /\ ScriptUnchanged

NextEdits == EditsBegin \/ EditLoad \/ EditSave \/ Return

SpecEdits == InitStore /\ [][NextEdits]_vars

(***************************************************************************)
(* The settings load as the two events it is: chrome.storage.sync.get      *)
(* reads storage, and its callback resumes initializeExtension later.      *)
(* Between the two the script has no storage listener yet; call holds the  *)
(* object the read produced.  Settings are saved by the settings pages, no *)
(* key is removed.                                                         *)
(***************************************************************************)
StorageRead ==
  /\ phase = "loading"
  /\ call = NoCall
  /\ \E ok \in BOOLEAN :
       call' = [fn |-> "storage.get", ok |-> ok, ret |-> loadSettings(TRUE, ok)]
  /\ phase' = "awaiting"
  /\ last' = NoPass("read")
  /\ UNCHANGED <<doc, onDcl, observing, settings, storage, writes, notifs, path, dom,
                 debounce, batches, navTimers>>

InitAfterRead ==
  /\ phase = "awaiting"
  /\ LET s == updateSettings(settings, call.ret)
         r == formatWithCurrentSettings(s, path, dom)
     IN /\ settings' = s
        /\ IF doc = "ready"
           THEN dom' = r.dom /\ last' = Ran("init", r.count)
           ELSE dom' = dom /\ last' = NoPass("init")
  /\ phase' = "running"
  /\ onDcl' = (IF doc = "ready" THEN {} ELSE {"format"})
                 \cup (IF doc = "nobody" THEN {"observe"} ELSE {})
  /\ observing' = (doc # "nobody")
  /\ UNCHANGED <<call, doc, storage, writes, notifs, path, debounce, batches, navTimers>>

NextSaves ==
  \/ StorageRead
  \/ InitAfterRead
  \/ HostInsert
  \/ HostRemove
  \/ HostSetDatetime
  \/ HostNoise
  \/ Navigate
  \/ StorageSet
  \/ DeliverChange
  \/ NavEvent
  \/ NavFire
  \/ DebounceFire

SpecSaves == Init /\ [][NextSaves]_vars

(***************************************************************************)
(* Navigation events that overlap: one more event arrives while the settle *)
(* timeouts of earlier events are pending; navHandler sets a timeout for   *)
(* each event and keeps no handle to it.                                   *)
(***************************************************************************)
NavEventOverlap ==
  /\ phase = "running"
  /\ navTimers = MaxNavTimers
  /\ \E ev \in NavEvents : navTimers' = navTimers + 1
  /\ last' = NoPass("navEvent")
  /\ UNCHANGED <<call, phase, doc, onDcl, observing, settings, storage, writes, notifs,
                 path, dom, debounce, batches>>

NextTimers == Next \/ NavEventOverlap

SpecTimers == Init /\ [][NextTimers]_vars

(***************************************************************************)
(* Properties.                                                             *)
(***************************************************************************)
Enabled(s) == Truthy(s["enabled"])

Marked(el) == el.present /\ getAttribute(el, "data-formatted") = "true"

NoOwnedAttr(el) == \A a \in OwnedAttrs : getAttribute(el, a) = NoAttr

(* The step added no attribute to el and changed none: every attribute is  *)
(* as before or gone.                                                      *)
NothingAdded(before, after) ==
  \A a \in AttrNames : after.attrs[a] \in {before.attrs[a], NoAttr}

C2_Original ==
  [][ (last'.pass /\ isIgnoredRoute(path')) => (dom' = dom /\ last'.ret = 0) ]_vars

(* C2, amended: on an excluded path a pass with enabled=true writes        *)
(* nothing and returns 0; a pass with enabled=false reverts the elements   *)
(* that carry the marker and returns their number.                         *)
C2_RouteExclusion ==
  [][ (last'.pass /\ isIgnoredRoute(path')) =>
        IF Enabled(settings')
        THEN dom' = dom /\ last'.ret = 0
        ELSE /\ last'.ret = Cardinality({e \in Elems : Marked(dom[e])})
             /\ \A e \in Elems : IF Marked(dom[e])
                                 THEN dom'[e].present /\ NoOwnedAttr(dom'[e])
                                 ELSE dom'[e] = dom[e] ]_vars

(* An enabled pass has run on an excluded path and left a formatted        *)
(* element as it was.                                                      *)
C2_Witness ==
  /\ last.pass /\ last.ret = 0
  /\ isIgnoredRoute(path)
  /\ Enabled(settings)
  /\ \E e \in Elems : Marked(dom[e])

(* C3, as stated: a second pass right after a pass changes no attribute    *)
(* and returns the same count.                                             *)
C3_Original ==
  last.pass =>
    LET again == formatWithCurrentSettings(settings, path, dom)
    IN again.dom = dom /\ again.count = last.ret

(* C3, amended: a second pass right after a pass changes no attribute; it  *)
(* returns the same count when enabled is true, and 0 when enabled is      *)
(* false (nothing is left to revert).                                      *)
C3_Idempotent ==
  last.pass =>
    LET again == formatWithCurrentSettings(settings, path, dom)
    IN /\ again.dom = dom
       /\ again.count = (IF Enabled(settings) THEN last.ret ELSE 0)

(* An enabled pass has just formatted an element. *)
C3_Witness ==
  /\ last.pass /\ last.ret >= 1
  /\ Enabled(settings)
  /\ ~isIgnoredRoute(path)
  /\ \E e \in Elems : Marked(dom[e])

(* C4, as stated: after formatting and then reverting, every element has   *)
(* exactly the attributes the host page gave it.                           *)
C4_Original ==
  (last.pass /\ ~Enabled(settings)) =>
    \A e \in Elems : dom[e].present => dom[e].attrs = dom[e].orig

(* C5: a settings change that switches enabled from true to false runs a   *)
(* pass in the same handler, and when the handler returns no element that  *)
(* was formatted carries a formatter-owned attribute.                      *)
C5_DisableRevertsAtOnce ==
  [][ (Enabled(settings) /\ ~Enabled(settings')) =>
        /\ last'.pass
        /\ \A e \in Elems : Marked(dom[e]) => NoOwnedAttr(dom'[e]) ]_vars

(* The change handler has just reverted a formatted element. *)
C5_Witness ==
  /\ last.op = "change" /\ last.pass /\ last.ret >= 1
  /\ ~Enabled(settings)
  /\ \A e \in Elems : NoOwnedAttr(dom[e])

(* A step that delivers a storage change to the listener. *)
Delivers == notifs # <<>> /\ notifs' = Tail(notifs)

(* C6: in a settings-change handler run the snapshot holds the new value   *)
(* of every changed field before the pass starts: the DOM the handler      *)
(* leaves is the one a pass computes from the new snapshot.                *)
C6_PassReadsNewSnapshot ==
  [][ Delivers =>
        /\ \A k \in DOMAIN Head(notifs).changes :
             settings'[k] = Head(notifs).changes[k]
        /\ last'.pass
        /\ dom' = formatWithCurrentSettings(settings', path, dom).dom ]_vars

(* A change of dateStyle was delivered while timers were pending, and the  *)
(* element carries the new style.                                          *)
C6_Witness ==
  /\ last.op = "change" /\ last.pass
  /\ settings["dateStyle"] = "long"
  /\ debounce.pending > 0 /\ navTimers > 0
  /\ \E e \in Elems : getAttribute(dom[e], "format-style") = "long"

(* C7: while the snapshot has enabled=false, no pass from any source adds  *)
(* a formatter-owned attribute to any element.                             *)
C7_DisabledNeverFormats ==
  [][ (~Enabled(settings) /\ ~Enabled(settings') /\ last'.pass) =>
        \A e \in Elems : \A a \in OwnedAttrs :
          dom'[e].attrs[a] \in {dom[e].attrs[a], NoAttr} ]_vars

(* A timer pass has run while disabled, with another field changed since  *)
(* the load, over an element it left alone.                                *)
C7_Witness ==
  /\ last.op \in {"nav", "debounce"} /\ last.pass
  /\ ~Enabled(settings)
  /\ settings["showTime"] = "always"
  /\ \E e \in Elems : dom[e].present /\ NoOwnedAttr(dom[e])

(* C8: qualifying batches that arrive before the debounce timer fires      *)
(* leave exactly one timeout pending, the one timeoutId names; when it     *)
(* fires one pass runs and no debounce timeout is left.                    *)
C8_DebounceCoalesces ==
  /\ debounce.pending <= 1
  /\ debounce.live <=> (debounce.pending = 1)
  /\ (batches >= 1) <=> (debounce.pending = 1)
  /\ last.op = "debounce" => (last.pass /\ debounce.pending = 0)

(* Two qualifying batches have arrived and one timeout is pending. *)
C8_Witness == batches >= 2 /\ debounce.pending = 1

(* C9, as stated: every field of the snapshot is valid in every reachable  *)
(* state.                                                                  *)
C9_Original == ValidSettings(settings)

(* C10, as stated: once the change is delivered, the snapshot holds the    *)
(* default of every key that is absent from storage.                       *)
C10_Original ==
  (phase = "running" /\ notifs = <<>>) =>
    \A k \in Keys : storage[k] = Absent => settings[k] = getDefaultSettings[k]

(* C11, as stated: in every reachable state, host edits of attributes      *)
(* included, an element carries data-formatted="true" exactly when it      *)
(* holds attributes the formatter applied and has not reverted.            *)
C11_Original ==
  \A e \in Elems :
    dom[e].present => (Marked(dom[e]) <=> dom[e].applied # {})

(* The closed set of an enum field. *)
ClosedSet(k) ==
  CASE k = "dateStyle" -> dateStyles
    [] k = "showWeekday" -> weekdayPolicies
    [] k = "showTime" -> timePolicies

(* C12: coerceSettings returns, for null, undefined and every partial      *)
(* object, a value whose enum fields are in their closed sets and whose    *)
(* boolean fields are booleans; a field that is absent or holds an invalid *)
(* enum value gets its default, a valid supplied field keeps its value.    *)
C12_CoerceTotal ==
  call.fn = "coerceSettings" =>
    LET given == IF call.arg.type = "object" THEN call.arg.fields ELSE << >>
        out == call.ret
    IN /\ ValidSettings(out)
       /\ \A k \in Keys \ DOMAIN given : out[k] = getDefaultSettings[k]
       /\ \A k \in (DOMAIN given) \ BoolKeys :
            out[k] = (IF given[k] \in ClosedSet(k) THEN given[k]
                      ELSE getDefaultSettings[k])
       /\ \A k \in (DOMAIN given) \cap BoolKeys :
            IsBoolean(given[k]) => out[k] = given[k]

(* coerceSettings was given an object with a malformed dateStyle, a valid  *)
(* showTime and a non-boolean enabled.                                     *)
C12_Witness ==
  /\ call.fn = "coerceSettings"
  /\ call.arg.type = "object"
  /\ DOMAIN call.arg.fields = {"dateStyle", "showTime", "enabled"}
  /\ call.arg.fields["dateStyle"] = Malformed
  /\ call.arg.fields["showTime"] = "always"
  /\ call.arg.fields["enabled"] = ""
  /\ call.ret["dateStyle"] = "short"
  /\ call.ret["showTime"] = "always"
  /\ call.ret["enabled"] = "false"

(* A pass has just run with enabled=true on a path that is not excluded. *)
AfterEnabledPass == last.pass /\ Enabled(settings) /\ ~isIgnoredRoute(path)

HasAttr(el, name) == getAttribute(el, name) # NoAttr

(* C13: after an enabled pass on a path that is not excluded, with         *)
(* showWeekday=olderYears an element has the weekday attribute exactly     *)
(* when its datetime year is less than the current year; with always every *)
(* element has it; with never no element has it.                           *)
C13_WeekdayPolicy ==
  AfterEnabledPass =>
    \A e \in Elems : dom[e].present =>
      /\ settings["showWeekday"] = "olderYears" =>
           (HasAttr(dom[e], "weekday") <=>
              FullYear(getAttribute(dom[e], "datetime")) < getCurrentYear)
      /\ settings["showWeekday"] = "always" => HasAttr(dom[e], "weekday")
      /\ settings["showWeekday"] = "never" => ~HasAttr(dom[e], "weekday")

(* An enabled pass with olderYears has left a this-year element formatted  *)
(* without the weekday attribute.                                          *)
C13_Witness ==
  /\ AfterEnabledPass
  /\ settings["showWeekday"] = "olderYears"
  /\ \E e \in Elems :
       /\ Marked(dom[e])
       /\ getAttribute(dom[e], "datetime") = ThisYear
       /\ ~HasAttr(dom[e], "weekday")

(* C14, as stated: after an enabled pass on a path that is not excluded an *)
(* element has hour and minute exactly when showTime=always, or            *)
(* showTime=actionsOnly on a path containing /actions; it has second       *)
(* exactly when it has hour and minute and includeSeconds is true.         *)
C14_Original ==
  AfterEnabledPass =>
    \A e \in Elems : dom[e].present =>
      LET shown == \/ settings["showTime"] = "always"
                   \/ settings["showTime"] = "actionsOnly" /\ isActionPage(path)
      IN /\ HasAttr(dom[e], "hour") <=> shown
         /\ HasAttr(dom[e], "minute") <=> shown
         /\ HasAttr(dom[e], "second") <=> (shown /\ settings["includeSeconds"] = "true")

(* C15, as stated: the pass sets format-style to the current dateStyle     *)
(* value on every element; with the default settings on /org/repo/commits  *)
(* a last-year element ends with format-style=short, weekday, no hour,     *)
(* minute or second, and the marker.                                       *)
C15_Original ==
  AfterEnabledPass =>
    \A e \in Elems : dom[e].present =>
      /\ getAttribute(dom[e], "format-style") = settings["dateStyle"]
      /\ ( /\ settings = [getDefaultSettings EXCEPT !["debug"] = settings["debug"]]
           /\ path = PathCommits
           /\ getAttribute(dom[e], "datetime") = LastYear )
         => /\ getAttribute(dom[e], "format-style") = "short"
            /\ HasAttr(dom[e], "weekday")
            /\ ~HasAttr(dom[e], "hour") /\ ~HasAttr(dom[e], "minute")
            /\ ~HasAttr(dom[e], "second")
            /\ Marked(dom[e])

(* C16, as stated: loadSettings never throws; it resolves to the defaults  *)
(* when the read fails or storage is missing, and to the coerced stored    *)
(* settings when the read succeeds.                                        *)
C16_Original ==
  call.fn = "loadSettings" =>
    /\ ~call.threw
    /\ call.ret = (IF call.read
                   THEN coerceSettings(storageGet(getDefaultSettings, TRUE))
                   ELSE getDefaultSettings)

(* C17: saveSettings calls set once with the whole settings value; when    *)
(* the write fails it throws and storage is as before the call, when it    *)
(* succeeds storage holds every field of the value.                        *)
C17_SaveOnce ==
  call.fn = "saveSettings" =>
    /\ call.sets = 1
    /\ call.threw <=> ~call.ok
    /\ DOMAIN call.arg = Keys
    /\ call.ok => \A k \in Keys : storage[k] = call.arg[k]
    /\ ~call.ok => storage = call.before

(* A save of a value that differs from the stored one has failed. *)
C17_Witness ==
  /\ call.fn = "saveSettings"
  /\ call.threw
  /\ storage = call.before
  /\ \E k \in Keys : storage[k] # call.arg[k]

(* C18: updateSettings returns a value that has the patch's value in every *)
(* field the patch names and the current value in every other field;       *)
(* toggleSetting negates the one field and keeps the others, and toggling  *)
(* a boolean field twice gives the original value.                         *)
C18_UpdateToggle ==
  /\ call.fn = "updateSettings" =>
       /\ DOMAIN call.ret = Keys
       /\ \A k \in DOMAIN call.patch : call.ret[k] = call.patch[k]
       /\ \A k \in Keys \ DOMAIN call.patch : call.ret[k] = call.current[k]
  /\ call.fn = "toggleSetting" =>
       /\ DOMAIN call.ret = Keys
       /\ call.ret[call.key] = Not(call.current[call.key])
       /\ \A k \in Keys \ {call.key} : call.ret[k] = call.current[k]
       /\ IsBoolean(call.current[call.key]) => call.twice = call.current

(* enabled was toggled from true to false, and twice back to true. *)
C18_Witness ==
  /\ call.fn = "toggleSetting"
  /\ call.key = "enabled"
  /\ call.current["enabled"] = "true"
  /\ call.ret["enabled"] = "false"
  /\ call.twice = call.current

(* C19: a pass leaves the elements as the pass of a run whose snapshot     *)
(* differs only in debug leaves them, and returns the same count: the      *)
(* element attributes of two runs that differ only in debug agree after    *)
(* every step.                                                             *)
C19_DebugNoEffect ==
  [][ last'.pass =>
        \A v \in {"true", "false", Undefined} :
          LET twin == formatWithCurrentSettings(
                        [settings' EXCEPT !["debug"] = v], path', dom)
          IN dom' = twin.dom /\ last'.ret = twin.count ]_vars

(* A pass has formatted an element with debug on. *)
C19_Witness ==
  /\ last.pass /\ last.ret >= 1
  /\ settings["debug"] = "true"
  /\ \E e \in Elems : Marked(dom[e])

(* An event from outside the content script: the host page changes the     *)
(* document or the path, a navigation event is dispatched, a setting is    *)
(* written or removed.                                                     *)
External ==
  \/ HostInsert \/ HostRemove \/ HostSetDatetime \/ HostNoise
  \/ Navigate \/ NavEvent
  \/ StorageSet \/ StorageRemove

(* Nothing is left to run: no timeout pending, no storage event queued. *)
Quiescent ==
  /\ phase = "running"
  /\ notifs = <<>>
  /\ debounce.pending = 0
  /\ navTimers = 0

(* C20: no attribute record a pass produces qualifies; a step that runs a  *)
(* pass schedules no timeout; and unless external events keep arriving the *)
(* script becomes quiescent for good.                                      *)
C20_PassTriggersNoPass ==
  /\ [](\A a \in OwnedAttrs :
          ~shouldTriggerFormatting(AttributeChange("RELATIVE-TIME", a)))
  /\ [][ last'.pass => /\ debounce'.pending <= debounce.pending
                       /\ navTimers' <= navTimers ]_vars
  /\ ([]<><<External>>_vars \/ <>[]Quiescent)

(* A debounced pass over an element has left the script quiescent while    *)
(* the observer is attached.                                               *)
C20_Witness ==
  /\ last.op = "debounce" /\ last.pass /\ last.ret >= 1
  /\ observing
  /\ Quiescent

(* The formatter-owned attributes formatSingleElement gives an element     *)
(* that carries nothing but its datetime.                                  *)
FreshlyFormatted(datetime, currentSettings, pathname) ==
  formatSingleElement(HostElem(datetime, NoAttrs), getCurrentYear,
                      currentSettings, pathname)

(* C21: after a pass with enabled=true on a path that is not excluded,     *)
(* every formatter-owned attribute of every relative-time element has the  *)
(* value that formatting an element carrying only the same datetime would  *)
(* give under the current settings, current year and path: nothing of the  *)
(* element's earlier attributes shows, whether an earlier pass under other *)
(* settings left them or the host page stripped them.                      *)
C21_AttributesFromInputsOnly ==
  AfterEnabledPass =>
    \A e \in Elems :
      dom[e].present =>
        \A a \in OwnedAttrs :
          getAttribute(dom[e], a)
            = getAttribute(FreshlyFormatted(getAttribute(dom[e], "datetime"),
                                            settings, path), a)

(* The pass of a settings change to showWeekday="never" has run, no timer  *)
(* is pending, and an element of an earlier year that the earlier passes   *)
(* gave a weekday is marked and carries none.                              *)
C21_Witness ==
  \E e \in Elems :
    /\ AfterEnabledPass /\ last.op = "change"
    /\ writes = 1 /\ storage["showWeekday"] = "never"
    /\ settings["showWeekday"] = "never"
    /\ debounce.pending = 0 /\ navTimers = 0
    /\ Marked(dom[e]) /\ getAttribute(dom[e], "datetime") = LastYear
    /\ ~HasAttr(dom[e], "weekday")

(* A record qualifies: one of its added nodes is an element that is a      *)
(* relative-time element or contains one, or it is an attribute mutation   *)
(* of datetime whose target is a relative-time element.                    *)
Qualifies(m) ==
  \/ \E node \in m.addedNodes :
       /\ node.nodeType = "ELEMENT_NODE"
       /\ node.tagName = "RELATIVE-TIME" \/ node.inside > 0
  \/ /\ m.type = "attributes"
     /\ m.attributeName = "datetime"
     /\ m.target = "RELATIVE-TIME"

(* C22: when the observer is handed a batch, the debounced pass is         *)
(* scheduled (one timeout pending, counted as one more qualifying batch)   *)
(* if and only if at least one record of the batch qualifies; a batch with *)
(* no qualifying record leaves the timeout as it was, pending or not.      *)
C22_QualifyingBatchSchedules ==
  [][ (call = NoCall /\ call'.fn = "MutationObserver") =>
        IF \E m \in call'.mutations : Qualifies(m)
        THEN /\ debounce' = [pending |-> 1, live |-> TRUE]
             /\ batches' = (IF batches < MaxBatches THEN batches + 1 ELSE batches)
        ELSE /\ debounce' = debounce
             /\ batches' = batches ]_vars

(* A batch of inserted text, an inserted plain element and a datetime      *)
(* rewritten on another element arrived while a timeout was pending.       *)
C22_Witness ==
  /\ call.fn = "MutationObserver"
  /\ call.mutations = {ChildList({TextNode}), ChildList({PlainNode}),
                       AttributeChange("TIME", "datetime")}
  /\ debounce.pending = 1 /\ batches = 1

(* A host task whose batch can qualify. *)
QualifyingBatch == HostInsert \/ HostSetDatetime

FormattingOn == Enabled(settings) /\ ~isIgnoredRoute(path)

StaleWeekday(el) ==
  /\ Marked(el)
  /\ HasAttr(el, "weekday") # (getElementYear(el) < getCurrentYear)

OlderYearsOn == FormattingOn /\ settings["showWeekday"] = "olderYears"

(* C24: a step that rewrites the datetime of a formatted element leaves    *)
(* the debounce timeout set; the debounced pass, run with enabled=true on  *)
(* a non-excluded path under showWeekday="olderYears", leaves the weekday  *)
(* of every element in agreement with the policy for its year; and in a    *)
(* run where those three conditions stay true, a formatted element whose   *)
(* weekday disagrees with the policy for its (new) year eventually agrees  *)
(* with it.  Timers that are set fire (fairness of SpecLive).              *)
C24_DatetimeRewriteReformats ==
  /\ [][ \A e \in Elems :
           ( /\ Marked(dom[e]) /\ dom'[e].present
             /\ getAttribute(dom'[e], "datetime") # getAttribute(dom[e], "datetime") )
           => debounce' = [pending |-> 1, live |-> TRUE] ]_vars
  /\ []( (last.op = "debounce" /\ last.pass /\ OlderYearsOn)
           => \A e \in Elems : dom[e].present => ~StaleWeekday(dom[e]) )
  /\ \/ <>~OlderYearsOn
     \/ \A e \in Elems : [](StaleWeekday(dom[e]) => <>~StaleWeekday(dom[e]))

(* The host has rewritten the datetime of a formatted element from an      *)
(* earlier year to the current one: the element still carries the weekday  *)
(* and the debounce timeout is set.                                        *)
C24_Witness ==
  \E e \in Elems :
    /\ OlderYearsOn /\ Marked(dom[e])
    /\ getAttribute(dom[e], "datetime") = ThisYear
    /\ HasAttr(dom[e], "weekday")
    /\ debounce = [pending |-> 1, live |-> TRUE]

(* C25: a navigation event sets exactly one settle timeout and runs no     *)
(* pass itself; a settle timeout that fires runs one full pass, with the   *)
(* enabled flag, the snapshot and the path of the moment it fires; no      *)
(* other step runs a navigation pass; and every settle timeout that is set *)
(* eventually fires (fairness of SpecLive).                                *)
C25_NavigationPass ==
  /\ [][ /\ navTimers' > navTimers =>
              /\ navTimers' = navTimers + 1
              /\ ~last'.pass /\ dom' = dom
         /\ navTimers' < navTimers =>
              LET r == formatRelativeTimes(settings["enabled"], settings, path, dom)
              IN /\ navTimers' = navTimers - 1
                 /\ last' = Ran("nav", r.count)
                 /\ dom' = r.dom
                 /\ settings' = settings /\ path' = path
         /\ (last'.pass /\ last'.op = "nav") => navTimers' = navTimers - 1 ]_vars
  /\ [](navTimers > 0 => <>(last.pass /\ last.op = "nav"))

(* The settle timeout has fired after a settings change was delivered: the *)
(* navigation pass has formatted the element under the changed snapshot.   *)
C25_Witness ==
  \E e \in Elems :
    /\ last.pass /\ last.op = "nav" /\ last.ret = 1 /\ navTimers = 0
    /\ FormattingOn /\ writes = 1 /\ notifs = <<>>
    /\ settings["dateStyle"] = "long"
    /\ Marked(dom[e]) /\ getAttribute(dom[e], "format-style") = "long"

(* C26: a {type: "settingsChanged", settings} message delivered to the     *)
(* content script replaces the snapshot with the patched value and runs a  *)
(* full pass at once under the new snapshot, as a storage-change event     *)
(* does.                                                                   *)
C26_Original ==
  [][ (last'.op = "message" /\ call'.message.type = "settingsChanged") =>
        /\ settings' = updateSettings(settings, call'.message.settings)
        /\ dom' = formatWithCurrentSettings(settings', path, dom).dom ]_vars

(* The step in which loadSettings resolves and initializeExtension runs on. *)
Initializes == phase = "loading" /\ phase' = "running"

(* The snapshots initialization can end with: the stored settings coerced, *)
(* or the defaults when the read failed.                                   *)
LoadedSnapshots ==
  { updateSettings(createDefaultSettings, loadSettings(TRUE, ok)) : ok \in BOOLEAN }

(* C27: while the settings load is pending no pass has run and no listener *)
(* or observer is registered.  The step in which the load completes sets   *)
(* the snapshot to the loaded settings; it runs the initial pass under     *)
(* that snapshot, or, when the document is still loading, registers it for *)
(* DOMContentLoaded, where it runs under the snapshot of that moment; it   *)
(* attaches the mutation observer (at once or at DOMContentLoaded) and     *)
(* registers the settings and navigation listeners.  When the stored       *)
(* enabled is false and the read succeeded, the initial pass leaves no     *)
(* element formatted.                                                      *)
C27_InitializationOrder ==
  /\ []( phase = "loading" =>
           /\ ~last.pass /\ \A e \in Elems : dom[e].applied = {}
           /\ onDcl = {} /\ ~observing /\ notifs = <<>> /\ navTimers = 0 )
  /\ [][ Initializes =>
           /\ settings' \in LoadedSnapshots
           /\ IF doc = "ready"
              THEN /\ last' = Ran("init", formatRelativeTimes(settings'["enabled"],
                                            settings', path, dom).count)
                   /\ dom' = formatRelativeTimes(settings'["enabled"], settings',
                                                 path, dom).dom
              ELSE "format" \in onDcl' /\ dom' = dom
           /\ observing' \/ "observe" \in onDcl'
           /\ (storage["enabled"] = "false" /\ settings' # createDefaultSettings)
                => \A e \in Elems : ~Marked(dom'[e]) ]_vars
  /\ [][ (doc = "loading" /\ doc' = "ready" /\ "format" \in onDcl) =>
           /\ last'.pass
           /\ dom' = formatRelativeTimes(settings["enabled"], settings, path, dom).dom
           /\ (~Enabled(settings) => \A e \in Elems : ~Marked(dom'[e])) ]_vars
  /\ [][ (doc = "loading" /\ doc' = "ready") => (observing' = (phase = "running")) ]_vars

(* enabled=false is stored, the load has completed with it and the initial *)
(* pass has run over a document holding an element: the element is not     *)
(* formatted and the observer is attached.                                 *)
C27_Witness ==
  \E e \in Elems :
    /\ storage["enabled"] = "false" /\ settings["enabled"] = "false"
    /\ last.pass /\ last.op = "init" /\ last.ret = 0
    /\ dom[e].present /\ NoOwnedAttr(dom[e]) /\ observing

(* C28: the step in which the settings load ends, failed or not, leaves    *)
(* the snapshot at the coerced stored settings or, when the read failed,   *)
(* at the defaults; in both cases the initial pass runs under that         *)
(* snapshot, the observer is attached and the listeners are live: a later  *)
(* navigation event is taken.  Initialization is never stuck: while the    *)
(* load is pending the step is possible.                                   *)
C28_LoadFailureKeepsDefaults ==
  /\ [][ Initializes =>
           /\ \/ settings' = coerceSettings(storageGet(createDefaultSettings, TRUE))
              \/ settings' = createDefaultSettings
           /\ last' = Ran("init", formatRelativeTimes(settings'["enabled"], settings',
                                                      path, dom).count)
           /\ dom' = formatRelativeTimes(settings'["enabled"], settings', path, dom).dom
           /\ observing' ]_vars
  /\ [](phase = "loading" => ENABLED InitLoaded)
  /\ [](phase = "running" /\ navTimers < MaxNavTimers => ENABLED NavEvent)

(* enabled=false is stored and was never written since, yet the snapshot   *)
(* is the defaults: the read failed.  The initial pass has formatted the   *)
(* element and the observer is attached.                                   *)
C28_Witness ==
  \E e \in Elems :
    /\ writes = 0 /\ storage["enabled"] = "false"
    /\ settings = createDefaultSettings
    /\ last.pass /\ last.op = "init" /\ last.ret = 1
    /\ ~isIgnoredRoute(path) /\ Marked(dom[e]) /\ observing

(* C29: the value a pass returns is, with enabled=false, the number of     *)
(* elements that carried data-formatted="true" before the pass, each of    *)
(* them reverted by it; with enabled=true on an excluded path, 0; and      *)
(* otherwise the number of relative-time elements in the document, marked  *)
(* before the pass or not.                                                 *)
C29_ReturnValue ==
  [][ last'.pass =>
        last'.ret =
          IF ~Enabled(settings')
          THEN Cardinality({e \in Elems : Marked(dom[e]) /\ NoOwnedAttr(dom'[e])})
          ELSE IF isIgnoredRoute(path') THEN 0
          ELSE Cardinality({e \in Elems : dom[e].present}) ]_vars

(* A settings change to dateStyle="long" was delivered with no timer       *)
(* pending, so the element was already formatted by an earlier pass; the   *)
(* pass the change ran returned 1.                                         *)
C29_Witness ==
  \E e \in Elems :
    /\ AfterEnabledPass /\ last.op = "change" /\ last.ret = 1
    /\ writes = 1 /\ storage["dateStyle"] = "long" /\ settings["dateStyle"] = "long"
    /\ debounce.pending = 0 /\ navTimers = 0
    /\ Marked(dom[e])

OptionsHandlers == {"optionsToggle", "optionsSelect", "optionsReset"}

(* C30: in the options page, an event whose save failed (a toggle, a       *)
(* change of a select, reset to defaults) ends with the error notification *)
(* shown and with the controls showing what they showed before the event,  *)
(* not the value that was not saved.                                       *)
C30_Original ==
  (call.fn \in OptionsHandlers /\ call.threw) =>
    /\ call.notification = "error"
    /\ call.ui = call.shown

(* The steps that call observer.observe(document.body): initialization    *)
(* when the body exists, or the DOMContentLoaded listener registered when  *)
(* it did not.                                                             *)
AttachesAtInit == Initializes /\ doc # "nobody"

AttachesAtDcl == doc = "loading" /\ doc' = "ready" /\ "observe" \in onDcl

(* C31: when initialization finds no body, the observer is not attached    *)
(* then but in the DOMContentLoaded step; the observer is attached by at   *)
(* most one step of a run (initialization or DOMContentLoaded, never       *)
(* both), is not attached before and stays attached; and once attached,    *)
(* an inserted relative-time element or a rewritten datetime sets the      *)
(* debounce timeout whichever step attached it.                            *)
C31_LazyAttach ==
  /\ [][ /\ (Initializes /\ doc = "nobody") =>
              (~observing' /\ "observe" \in onDcl')
         /\ (AttachesAtInit \/ AttachesAtDcl) => (~observing /\ observing')
         /\ (observing' # observing) => (AttachesAtInit \/ AttachesAtDcl)
         /\ ~(AttachesAtInit /\ AttachesAtDcl)
         /\ AttachesAtInit => "observe" \notin onDcl'
         /\ AttachesAtDcl => "observe" \notin onDcl'
         /\ (observing /\ \E e \in Elems :
               /\ dom'[e].present
               /\ \/ ~dom[e].present
                  \/ getAttribute(dom'[e], "datetime") # getAttribute(dom[e], "datetime"))
              => debounce' = [pending |-> 1, live |-> TRUE] ]_vars
  /\ []("observe" \in onDcl => (~observing /\ phase = "running"))
  /\ []((phase = "running" /\ doc = "ready") => observing)

(* The DOMContentLoaded step has run the listeners initialization          *)
(* registered: the deferred pass formatted an element inserted while the   *)
(* document was loading and unobserved (no timeout was set for it), and    *)
(* the observer is attached.                                               *)
C31_Witness ==
  \E e \in Elems :
    /\ observing /\ doc = "ready" /\ onDcl = {}
    /\ last.pass /\ last.op = "dcl" /\ last.ret = 1
    /\ debounce.pending = 0 /\ batches = 0
    /\ FormattingOn /\ Marked(dom[e])

C33_Original ==
  ( /\ call.fn = "edits"
    /\ \A i \in 1..2 : call.handlers[i].pc = "done" )
  => \A i \in 1..2 : storage[call.handlers[i].key] = call.handlers[i].wrote

(* The stored settings: the stored value of each key, its default when the *)
(* key was never stored.                                                   *)
StoredSettings ==
  [k \in Keys |-> IF storage[k] = Absent THEN getDefaultSettings[k] ELSE storage[k]]

(* C34: once the content script runs and every storage-change notification *)
(* has been delivered, its snapshot equals the stored settings in all six  *)
(* fields, whatever saves were made and when (no key is removed).          *)
C34_Original ==
  (phase = "running" /\ notifs = <<>>) => settings = StoredSettings

(* C35: a navigation event adds exactly one settle timeout and leaves the  *)
(* debounce timeout and the batch count as they were; a step that sets,    *)
(* restarts or fires the debounce timeout leaves the settle timeouts as    *)
(* they were; the settle timeouts go one at a time, each with one          *)
(* navigation pass, and a navigation pass leaves the debounce timeout as   *)
(* it was.  So the navigation passes run are the events received less the  *)
(* timeouts still pending: none is coalesced or cancelled.                 *)
C35_TimersIndependent ==
  [][ /\ navTimers' > navTimers =>
           /\ navTimers' = navTimers + 1
           /\ debounce' = debounce /\ batches' = batches
           /\ ~last'.pass
      /\ navTimers' < navTimers =>
           /\ navTimers' = navTimers - 1
           /\ last'.pass /\ last'.op = "nav"
           /\ debounce' = debounce /\ batches' = batches
      /\ (last'.pass /\ last'.op = "nav") => navTimers' = navTimers - 1
      /\ (debounce' # debounce \/ batches' # batches) => navTimers' = navTimers ]_vars

(* Overlapping navigation events and a qualifying batch have arrived:      *)
(* several settle timeouts and the debounce timeout are pending together.  *)
C35_Witness ==
  /\ navTimers = MaxNavTimers + 1
  /\ debounce = [pending |-> 1, live |-> TRUE]
  /\ batches >= 1

(***************************************************************************)
(* Other storage changes: chrome.storage.onChanged also reports changes of *)
(* the "local" area, of keys that are no settings, and of several keys set *)
(* by one call.                                                            *)
(***************************************************************************)
ForeignKey == "theme"

(* The changes another context makes with one call: the area, and the new  *)
(* value of every key the call changed.                                    *)
OtherChanges ==
  LET one(k, v) == [x \in {k} |-> v]
      settingsChanges ==
        UNION {{one(k, v) : v \in StoredValues(k)} : k \in Keys}
  IN   {[namespace |-> "local", changes |-> c] : c \in settingsChanges}
     \cup {[namespace |-> "sync", changes |-> one(ForeignKey, "dark")]}
     \cup {[namespace |-> "sync", changes |-> Merge(c, one(ForeignKey, "dark"))] :
             c \in settingsChanges}
     \cup {[namespace |-> "sync", changes |-> Merge(c, one("enabled", v))] :
             c \in settingsChanges, v \in StoredValues("enabled")}

(* storage.local.set or storage.sync.set in another context; the sync area *)
(* keeps the settings keys the call names.                                 *)
StorageSetOther ==
  /\ phase = "running"
  /\ writes < MaxWrites
  /\ \E n \in OtherChanges :
       /\ storage' = IF n.namespace = "sync"
                     THEN [k \in Keys |-> IF k \in DOMAIN n.changes
                                          THEN n.changes[k] ELSE storage[k]]
                     ELSE storage
       /\ notifs' = Append(notifs, n)
  /\ writes' = writes + 1
  /\ last' = NoPass("write")
  /\ UNCHANGED <<call, phase, doc, onDcl, observing, settings, path, dom, debounce,
                 batches, navTimers>>

NextChanges == Next \/ StorageSetOther

SpecChanges == Init /\ [][NextChanges]_vars

(* C36: the storage-change listener leaves the snapshot, the page and the  *)
(* timers alone and runs no pass when the change it is handed is of an     *)
(* area other than "sync" or names none of the six settings keys; when it  *)
(* applies a change, every snapshot field the change names takes the new   *)
(* value of the change and every other snapshot field keeps its value.     *)
C36_ListenerFrame ==
  [][ (notifs # << >> /\ notifs' = Tail(notifs)) =>
        LET n == Head(notifs)
        IN IF n.namespace # "sync" \/ (DOMAIN n.changes) \cap Keys = {}
           THEN /\ settings' = settings
                /\ dom' = dom
                /\ debounce' = debounce /\ batches' = batches
                /\ ~last'.pass
           ELSE /\ DOMAIN settings' = DOMAIN settings
                /\ \A k \in DOMAIN settings :
                     settings'[k] = IF k \in DOMAIN n.changes
                                    THEN n.changes[k] ELSE settings[k]
                /\ last'.pass ]_vars

(* A change of the "local" area, or of a key that is no setting, has been  *)
(* written and handed to the listener: nothing is queued any more, the     *)
(* sync area holds no settings key and the snapshot is still the defaults. *)
C36_Witness ==
  /\ phase = "running"
  /\ writes = 1
  /\ notifs = << >>
  /\ storage = [k \in Keys |-> Absent]
  /\ settings = createDefaultSettings
  /\ ~last.pass

(***************************************************************************)
(* coerceSettings applied to its own result (sharedSettings.js).           *)
(***************************************************************************)
(* Every settings value whose six fields are valid. *)
AllValidSettings ==
  { [enabled |-> e, debug |-> g, dateStyle |-> d, showWeekday |-> w,
     showTime |-> t, includeSeconds |-> i] :
      e \in {"true", "false"}, g \in {"true", "false"}, d \in dateStyles,
      w \in weekdayPolicies, t \in timePolicies, i \in {"true", "false"} }

(* Objects that carry a property the settings do not know. *)
ExtendedObjects ==
  { Merge(f, [x \in {"version"} |-> "2"]) :
      f \in {<< >>, getDefaultSettings,
             [x \in {"dateStyle", "enabled"} |->
                IF x = "dateStyle" THEN Malformed ELSE "yes"]} }

TwiceArgs ==
  CoerceArgs \cup {JsObject(s) : s \in AllValidSettings}
             \cup {JsObject(f) : f \in ExtendedObjects}

(* coerceSettings(coerceSettings(partial)) *)
CallCoerceTwice ==
  /\ call = NoCall
  /\ \E partial \in TwiceArgs :
       LET once == coerceSettings(partial)
       IN call' = [fn |-> "coerceSettings twice", arg |-> partial, ret |-> once,
                   again |-> coerceSettings(JsObject(once))]
  /\ UNCHANGED storage
  /\ ScriptUnchanged

NextCoerce == CallCoerceTwice \/ Return

SpecCoerce == InitStore /\ [][NextCoerce]_vars

(* C37: coerceSettings applied to its own result returns that result, for  *)
(* every argument; and applied to a settings value with six valid fields   *)
(* it returns a value with the same six fields, each with the value it     *)
(* had.                                                                    *)
C37_CoerceIdempotent ==
  call.fn = "coerceSettings twice" =>
    /\ call.again = call.ret
    /\ (call.arg.type = "object" /\ ValidSettings(call.arg.fields)) =>
         /\ DOMAIN call.ret = Keys
         /\ \A k \in Keys : call.ret[k] = call.arg.fields[k]

(* coerceSettings has been applied twice to a valid settings value that    *)
(* differs from the defaults in every field.                               *)
C37_Witness ==
  /\ call.fn = "coerceSettings twice"
  /\ call.arg.type = "object"
  /\ ValidSettings(call.arg.fields)
  /\ \A k \in Keys : call.arg.fields[k] # getDefaultSettings[k]
  /\ call.again = call.arg.fields

====
